---- MODULE Spec2Model ----
(***************************************************************************)
(* PyFastOS (src/fastOs.py): the FastBootOS service manager, its command   *)
(* dispatcher and task registry, driven by the OS_GUI shell.               *)
(*                                                                         *)
(* Threads.  The Tk main thread (Main) runs one GUI handler at a time.     *)
(* start_os and shutdown_os spawn a threading.Thread each (a Worker) that  *)
(* runs boot_process / shutdown_process.  boot() and shutdown() submit one *)
(* unit per service to a ThreadPoolExecutor of their own and leave the     *)
(* with-block only when every unit has finished.  Every statement that     *)
(* reads or writes shared state is a step of its own, so the threads       *)
(* interleave as the interpreter lets them.                                *)
(*                                                                         *)
(* Strings are sequences of one-character strings, so that lower(),        *)
(* strip(), split(), startswith(), slicing and int() are computed.         *)
(***************************************************************************)
EXTENDS Integers, Sequences, FiniteSets, TLC

\* ---------------------------------------------------------------- bounds
\* Number of configured services taken from OS_CONFIG["services"].
NumServices == 2
\* Number of threading.Thread slots the shell can have alive at once.
MaxThreads == 2
\* Number of task creations started.
MaxTasks == 2
\* Number of commands accepted into command_history.
MaxHistory == 1
\* Number of concurrent callers of run_background_task (SpecBg only).
MaxBackground == 1
\* Number of commands accepted into command_history when only commands that leave
\* the manager as it is are typed (SpecLog only).
MaxLogHistory == 13

\* ---------------------------------------------------------------- strings
Upper == << "A","B","C","D","E","F","G","H","I","J","K","L","M",
            "N","O","P","Q","R","S","T","U","V","W","X","Y","Z" >>
Lower == << "a","b","c","d","e","f","g","h","i","j","k","l","m",
            "n","o","p","q","r","s","t","u","v","w","x","y","z" >>
Digits == << "0","1","2","3","4","5","6","7","8","9" >>
Whitespace == {" ", "\t", "\n"}

IsDigit(c) == \E i \in 1..Len(Digits) : Digits[i] = c
DigitVal(c) == (CHOOSE i \in 1..Len(Digits) : Digits[i] = c) - 1

\* str.lower() on one character.
lower_char(c) ==
    IF \E i \in 1..Len(Upper) : Upper[i] = c
    THEN Lower[CHOOSE i \in 1..Len(Upper) : Upper[i] = c]
    ELSE c

\* str.lower()
lower(s) == [i \in 1..Len(s) |-> lower_char(s[i])]

\* str.strip(): drop leading and trailing whitespace.
strip(s) ==
    LET keep == {i \in 1..Len(s) : s[i] \notin Whitespace} IN
    IF keep = {} THEN << >>
    ELSE LET lo == CHOOSE i \in keep : \A j \in keep : i <= j
             hi == CHOOSE i \in keep : \A j \in keep : j <= i
         IN  SubSeq(s, lo, hi)

\* s[n:] for a 0-based index n.
slice_from(s, n) == SubSeq(s, n + 1, Len(s))

\* str.startswith(p)
startswith(s, p) == Len(s) >= Len(p) /\ SubSeq(s, 1, Len(p)) = p

\* str.split(): the maximal runs of non-whitespace characters, in order.
RECURSIVE split(_)
split(s) ==
    LET t == strip(s) IN
    IF t = << >> THEN << >>
    ELSE LET ws  == {i \in 1..Len(t) : t[i] \in Whitespace}
             cut == IF ws = {} THEN Len(t) + 1
                    ELSE CHOOSE i \in ws : \A j \in ws : i <= j
         IN  << SubSeq(t, 1, cut - 1) >> \o split(SubSeq(t, cut + 1, Len(t)))

\* str.isdigit(): non-empty and every character a digit.
isdigit(s) == s # << >> /\ \A i \in 1..Len(s) : IsDigit(s[i])

\* Value of a non-empty string of digits.
RECURSIVE digits_value(_)
digits_value(s) ==
    IF s = << >> THEN 0
    ELSE 10 * digits_value(SubSeq(s, 1, Len(s) - 1)) + DigitVal(s[Len(s)])

\* Mutant of int: text that is not a number is read as 0 instead of raising.
int_zero_on_error(s) ==
    LET t == strip(s) IN
    IF isdigit(t) THEN [ok |-> TRUE, val |-> digits_value(t)] ELSE [ok |-> TRUE, val |-> 0]

\* int(s): surrounding whitespace is ignored, one optional sign, then digits.
\* ok = FALSE stands for ValueError.
int(s) ==
    LET t    == strip(s)
        sign == IF t # << >> /\ t[1] \in {"+", "-"} THEN t[1] ELSE ""
        body == IF sign = "" THEN t ELSE Tail(t)
    IN  IF isdigit(body)
        THEN [ok |-> TRUE,
              val |-> IF sign = "-" THEN 0 - digits_value(body) ELSE digits_value(body)]
        ELSE [ok |-> FALSE, val |-> 0]

\* ---------------------------------------------------------------- literals
kw_add_task == << "a","d","d","_","t","a","s","k"," " >>
kw_kill_task == << "k","i","l","l","_","t","a","s","k"," " >>
kw_prioritize_task == << "p","r","i","o","r","i","t","i","z","e","_","t","a","s","k"," " >>
kw_list_tasks == << "l","i","s","t","_","t","a","s","k","s" >>
kw_status == << "s","t","a","t","u","s" >>
kw_uptime == << "u","p","t","i","m","e" >>
kw_services == << "s","e","r","v","i","c","e","s" >>
kw_echo == << "e","c","h","o"," " >>
kw_date == << "d","a","t","e" >>
kw_clear == << "c","l","e","a","r" >>
kw_help == << "h","e","l","p" >>
kw_memory == << "m","e","m","o","r","y" >>
kw_cpu == << "c","p","u" >>
kw_disk == << "d","i","s","k" >>
kw_network == << "n","e","t","w","o","r","k" >>
kw_log == << "l","o","g" >>
kw_exit == << "e","x","i","t" >>
kw_quit == << "q","u","i","t" >>
prio_normal == << "n","o","r","m","a","l" >>
prio_background == << "b","a","c","k","g","r","o","u","n","d" >>

\* ---------------------------------------------------------------- configuration
\* OS_CONFIG["services"], in configuration order.
ServiceNames == << "Filesystem", "Networking", "User Interface",
                   "Applications", "Security", "Background Tasks" >>
ServiceIndex == 1..NumServices
Services == {ServiceNames[i] : i \in ServiceIndex}

\* Threads: the Tk main thread and the threading.Thread slots of the shell.
Main == 0
Workers == 1..MaxThreads
Threads == {Main} \cup Workers
\* Callers of run_background_task.
BgThreads == 1..MaxBackground

\* ---------------------------------------------------------------- responses
\* A response: the literal text of the message and the values formatted into it.
Response(text) ==
    [text |-> text, id |-> 0, name |-> << >>, priority |-> << >>,
     tasks |-> << >>, lines |-> << >>, services |-> << >>]

NoResponse == Response("")
NotRunning == Response("Cannot execute command. OS is not running.")
InvalidTaskId == Response("Invalid task ID.")
PrioritizeUsage == Response("Usage: prioritize_task <task_id> <priority>")
GuiPrioritizeUsage == Response("Usage: <task_id> <priority>")
Goodbye == Response("Goodbye!")
NoActiveTasks == Response("No active tasks.")
TaskNotFound(task_id) == [Response("Task ID {task_id} not found.") EXCEPT !.id = task_id]

\* A line handed to log_callback: the literal text and the values formatted into it.
Line(text, service) == [text |-> text, service |-> service, name |-> << >>, id |-> 0]
TaskLine(text, name, id) == [text |-> text, service |-> "", name |-> name, id |-> id]

\* ---------------------------------------------------------------- task registry
\* self.tasks is a dict; a dict keeps its keys in insertion order, assigning to a
\* key that is present replaces the value in place.  It is modelled as the
\* sequence of its items.
task_ids(ts) == {ts[i].key : i \in 1..Len(ts)}
has_task(ts, k) == k \in task_ids(ts)
task_at(ts, k) == ts[CHOOSE i \in 1..Len(ts) : ts[i].key = k]
dict_set(ts, k, v) ==
    LET item == [key |-> k, name |-> v.name, status |-> v.status, priority |-> v.priority] IN
    IF has_task(ts, k)
    THEN [i \in 1..Len(ts) |-> IF ts[i].key = k THEN item ELSE ts[i]]
    ELSE Append(ts, item)

\* Mutant of next_task_id: ids count from 0.
next_task_id_from_zero(ts) == Len(ts)

\* task_id = len(self.tasks) + 1
next_task_id(ts) == Len(ts) + 1

\* self.tasks[task_id] = {"name": ..., "status": "running", "priority": ...}
store_task(ts, task_id, task_name, priority) ==
    dict_set(ts, task_id, [name |-> task_name, status |-> "running", priority |-> priority])

add_task_return(task_name, task_id) ==
    [Response("Task '{task_name}' added with ID {task_id}.")
        EXCEPT !.name = task_name, !.id = task_id]

\* Mutant of kill_task: the status is assigned without the membership test, so an
\* unknown id gets a record.
kill_task_unchecked(ts, task_id) ==
    [tasks |-> dict_set(ts, task_id,
                        [name |-> << >>, status |-> "terminated", priority |-> prio_normal]),
     ret   |-> TaskNotFound(task_id)]

\* kill_task(task_id): the registry afterwards and the value returned.
kill_task(ts, task_id) ==
    IF has_task(ts, task_id)
    THEN LET t == task_at(ts, task_id) IN
         [tasks |-> dict_set(ts, task_id, [t EXCEPT !.status = "terminated"]),
          ret   |-> [Response("Task ID {task_id} ('{name}') terminated.")
                        EXCEPT !.id = task_id, !.name = t.name]]
    ELSE [tasks |-> ts, ret |-> TaskNotFound(task_id)]

\* Mutant of prioritize_task: the priority is assigned to every task of the registry.
prioritize_task_every_task(ts, task_id, priority) ==
    IF has_task(ts, task_id)
    THEN LET t == task_at(ts, task_id) IN
         [tasks |-> [i \in 1..Len(ts) |-> [ts[i] EXCEPT !.priority = priority]],
          ret   |-> [Response("Task ID {task_id} ('{name}') priority set to {priority}.")
                        EXCEPT !.id = task_id, !.name = t.name, !.priority = priority]]
    ELSE [tasks |-> ts, ret |-> TaskNotFound(task_id)]

\* prioritize_task(task_id, priority): the registry afterwards and the value returned.
prioritize_task(ts, task_id, priority) ==
    IF has_task(ts, task_id)
    THEN LET t == task_at(ts, task_id) IN
         [tasks |-> dict_set(ts, task_id, [t EXCEPT !.priority = priority]),
          ret   |-> [Response("Task ID {task_id} ('{name}') priority set to {priority}.")
                        EXCEPT !.id = task_id, !.name = t.name, !.priority = priority]]
    ELSE [tasks |-> ts, ret |-> TaskNotFound(task_id)]

\* list_tasks(): one line per item of the dict, in the dict's order.
list_tasks(ts) ==
    IF ts = << >> THEN NoActiveTasks
    ELSE [Response("Active Tasks:") EXCEPT !.tasks =
            [i \in 1..Len(ts) |->
                [id |-> ts[i].key, name |-> ts[i].name,
                 status |-> ts[i].status, priority |-> ts[i].priority]]]

\* ---------------------------------------------------------------- state
VARIABLES
    status,           \* FastBootOS.status
    services,         \* FastBootOS.services: service -> "stopped" | "running"
    start_time,       \* FastBootOS.start_time: "None" or "set"
    command_history,  \* FastBootOS.command_history
    tasks,            \* FastBootOS.tasks, the items of the dict in insertion order
    log,              \* per thread: the lines its running boot()/shutdown() call has
                      \* handed to the sink self.log_message, in order
    start_button,     \* OS_GUI.start_button state: "normal" | "disabled"
    shutdown_button,  \* OS_GUI.shutdown_button state
    pc,               \* position of the main thread and of each threading.Thread
    units,            \* per thread running boot()/shutdown(): its pool's unit per service
    entry,            \* the command_entry text the running GUI handler has read
    command,          \* run_command's local `command` after line 73
    task_name,        \* add_task's parameter on the main thread
    task_id,          \* add_task's local task_id on the main thread (0: not yet assigned)
    result,           \* the response the last finished GUI handler rendered
    bgpc,             \* position of each caller of run_background_task
    bg_frame,         \* per caller of run_background_task: its task_name, its task_id
                      \* and the lines it has handed to its log_callback
    registered        \* number of executions of the registering assignment (lines 203, 235)

vars == << status, services, start_time, command_history, tasks, log, start_button,
           shutdown_button, pc, units, entry, command, task_name, task_id, result,
           bgpc, bg_frame, registered >>

manager == << status, services, start_time, command_history, tasks >>
registry == << tasks, registered >>
buttons == << start_button, shutdown_button >>
main_frame == << entry, command, task_name, task_id, result >>
background == << bgpc, bg_frame >>

NoUnits == [s \in Services |-> "none"]

\* __init__ of FastBootOS (lines 18-24) and of OS_GUI (lines 244-294).
Init ==
    /\ status = "idle"
    /\ services = [s \in Services |-> "stopped"]
    /\ start_time = "None"
    /\ command_history = << >>
    /\ tasks = << >>
    /\ log = [t \in Threads |-> << >>]
    /\ start_button = "normal"
    /\ shutdown_button = "disabled"
    /\ pc = [t \in Threads |-> IF t = Main THEN "idle" ELSE "free"]
    /\ units = [t \in Threads |-> NoUnits]
    /\ entry = << >>
    /\ command = << >>
    /\ task_name = << >>
    /\ task_id = 0
    /\ result = NoResponse
    /\ bgpc = [b \in BgThreads |-> "free"]
    /\ bg_frame = [b \in BgThreads |-> [task_name |-> << >>, task_id |-> 0, lines |-> << >>]]
    /\ registered = 0

\* ---------------------------------------------------------------- log sink
\* log_callback(line) as called by the boot()/shutdown() call of thread t, or by one of
\* its units.  boot_process and shutdown_process pass self.log_message, which appends
\* the line to the display; run_command passes `lambda msg: None` to shutdown (line 195).
log_callback(t, lg, line) ==
    IF t = Main THEN lg ELSE [lg EXCEPT ![t] = Append(@, line)]

\* The thread ends: the record of what its call logged is dropped.
log_closed(t, lg) == [lg EXCEPT ![t] = << >>]

\* ---------------------------------------------------------------- worker pool
\* Mutant of next_to_submit: the loop variable is not advanced, the first service is
\* submitted again and again.
next_to_submit_first(u) == ServiceNames[1]

\* The service whose unit the submit loop hands to the executor next:
\* `for service in self.services.keys()` goes in configuration order.
next_to_submit(u) ==
    ServiceNames[CHOOSE i \in ServiceIndex :
                    /\ u[ServiceNames[i]] = "none"
                    /\ \A j \in ServiceIndex : j < i => u[ServiceNames[j]] # "none"]
all_submitted(u) == \A s \in Services : u[s] # "none"

\* Mutant of pool_joined: the executor is not waited for, the controller goes on as
\* soon as every unit has been submitted.
pool_joined_when_submitted(u) == \A s \in Services : u[s] # "none"

\* Leaving `with ThreadPoolExecutor(...)` waits for every submitted unit.
pool_joined(u) == \A s \in Services : u[s] = "done"

\* The lowest free threading.Thread slot.
free_worker == CHOOSE t \in Workers : pc[t] = "free" /\ \A o \in Workers : pc[o] = "free" => t <= o

\* ---------------------------------------------------------------- boot
\* Mutant of start_os_button: the Boot button is left enabled.
start_os_button_left_enabled == "normal"

\* start_os, line 314: self.start_button.config(state=tk.DISABLED)
start_os_button == "disabled"

\* OS_GUI.start_os: the Boot button's command.  A disabled button invokes nothing.
StartOs ==
    /\ pc[Main] = "idle"
    /\ start_button = "normal"
    /\ \E t \in Workers : pc[t] = "free"
    /\ start_button' = start_os_button
    /\ pc' = [pc EXCEPT ![free_worker] = "boot"]
    /\ UNCHANGED << manager, log, shutdown_button, units, main_frame, background, registered >>

\* boot, lines 28-29: self.status = "booting"; self.start_time = time.time()
BootEnter(t) ==
    /\ pc[t] = "boot"
    /\ status' = "booting"
    /\ start_time' = "set"
    /\ pc' = [pc EXCEPT ![t] = "boot_log"]
    /\ UNCHANGED << services, command_history, tasks, log, buttons, units, main_frame,
                    background, registered >>

\* boot, line 30: log_callback("Booting PyFastOS...")
BootLogStart(t) ==
    /\ pc[t] = "boot_log"
    /\ log' = log_callback(t, log, Line("Booting PyFastOS...", ""))
    /\ pc' = [pc EXCEPT ![t] = "boot_submit"]
    /\ UNCHANGED << manager, buttons, units, main_frame, background, registered >>

\* boot, lines 32-34: one executor.submit(self._start_service, service, log_callback)
BootSubmit(t) ==
    /\ pc[t] = "boot_submit"
    /\ LET u == [units[t] EXCEPT ![next_to_submit(units[t])] = "start_sleep"] IN
        /\ units' = [units EXCEPT ![t] = u]
        /\ pc' = [pc EXCEPT ![t] = IF all_submitted(u) THEN "boot_join" ELSE "boot_submit"]
    /\ UNCHANGED << manager, log, buttons, main_frame, background, registered >>

\* _start_service, lines 58-59: time.sleep(1); self.services[service] = "running"
StartServiceRun(t, s) ==
    /\ units[t][s] = "start_sleep"
    /\ services' = [services EXCEPT ![s] = "running"]
    /\ units' = [units EXCEPT ![t][s] = "start_log"]
    /\ UNCHANGED << status, start_time, command_history, tasks, log, buttons, pc,
                    main_frame, background, registered >>

\* _start_service, line 60: log_callback(f"{service} started.")
StartServiceLog(t, s) ==
    /\ units[t][s] = "start_log"
    /\ log' = log_callback(t, log, Line("{service} started.", s))
    /\ units' = [units EXCEPT ![t][s] = "done"]
    /\ UNCHANGED << manager, buttons, pc, main_frame, background, registered >>

\* The units of a pool that are still running when the with-block is left.
after_join(u) == [s \in Services |-> IF u[s] = "done" THEN "none" ELSE u[s]]

\* boot, lines 32 and 36: leave the with-block, then self.status = "running"
BootJoin(t) ==
    /\ pc[t] = "boot_join"
    /\ pool_joined(units[t])
    /\ status' = "running"
    /\ units' = [units EXCEPT ![t] = after_join(units[t])]
    /\ pc' = [pc EXCEPT ![t] = "boot_complete"]
    /\ UNCHANGED << services, start_time, command_history, tasks, log, buttons,
                    main_frame, background, registered >>

\* boot, line 37: log_callback("OS Boot Complete."), and boot returns
BootComplete(t) ==
    /\ pc[t] = "boot_complete"
    /\ log' = log_callback(t, log, Line("OS Boot Complete.", ""))
    /\ pc' = [pc EXCEPT ![t] = "boot_returned"]
    /\ UNCHANGED << manager, buttons, units, main_frame, background, registered >>

\* boot_process, lines 320-321: enable the Shutdown button; update_service_status
\* only repaints the service labels.
BootProcessEnd(t) ==
    /\ pc[t] = "boot_returned"
    /\ shutdown_button' = "normal"
    /\ log' = log_closed(t, log)
    /\ pc' = [pc EXCEPT ![t] = "free"]
    /\ UNCHANGED << manager, start_button, units, main_frame, background, registered >>

\* ---------------------------------------------------------------- shutdown
\* shutdown_os, line 325: self.shutdown_button.config(state=tk.DISABLED)
shutdown_os_button == "disabled"

\* OS_GUI.shutdown_os: the Shutdown button's command.
ShutdownOs ==
    /\ pc[Main] = "idle"
    /\ shutdown_button = "normal"
    /\ \E t \in Workers : pc[t] = "free"
    /\ shutdown_button' = shutdown_os_button
    /\ pc' = [pc EXCEPT ![free_worker] = "shutdown"]
    /\ UNCHANGED << manager, log, start_button, units, main_frame, background, registered >>

\* Mutant of ShutdownEnter: the status is not set on entry, it stays what it was
\* until the barrier has been passed.
ShutdownEnter_status_kept(t) ==
    /\ pc[t] = "shutdown"
    /\ pc' = [pc EXCEPT ![t] = "shutdown_log"]
    /\ UNCHANGED << manager, log, buttons, units, main_frame, background, registered >>

\* shutdown, line 41: self.status = "shutting down"
ShutdownEnter(t) ==
    /\ pc[t] = "shutdown"
    /\ status' = "shutting down"
    /\ pc' = [pc EXCEPT ![t] = "shutdown_log"]
    /\ UNCHANGED << services, start_time, command_history, tasks, log, buttons, units,
                    main_frame, background, registered >>

\* shutdown, line 42: log_callback("Shutting down PyFastOS...")
ShutdownLogStart(t) ==
    /\ pc[t] = "shutdown_log"
    /\ log' = log_callback(t, log, Line("Shutting down PyFastOS...", ""))
    /\ pc' = [pc EXCEPT ![t] = "shutdown_submit"]
    /\ UNCHANGED << manager, buttons, units, main_frame, background, registered >>

\* shutdown, lines 44-46: one executor.submit(self._stop_service, service, log_callback)
ShutdownSubmit(t) ==
    /\ pc[t] = "shutdown_submit"
    /\ LET u == [units[t] EXCEPT ![next_to_submit(units[t])] = "stop_sleep"] IN
        /\ units' = [units EXCEPT ![t] = u]
        /\ pc' = [pc EXCEPT ![t] = IF all_submitted(u) THEN "shutdown_join" ELSE "shutdown_submit"]
    /\ UNCHANGED << manager, log, buttons, main_frame, background, registered >>

\* _stop_service, lines 64-65: time.sleep(0.5); self.services[service] = "stopped"
StopServiceRun(t, s) ==
    /\ units[t][s] = "stop_sleep"
    /\ services' = [services EXCEPT ![s] = "stopped"]
    /\ units' = [units EXCEPT ![t][s] = "stop_log"]
    /\ UNCHANGED << status, start_time, command_history, tasks, log, buttons, pc,
                    main_frame, background, registered >>

\* _stop_service, line 66: log_callback(f"{service} stopped.")
StopServiceLog(t, s) ==
    /\ units[t][s] = "stop_log"
    /\ log' = log_callback(t, log, Line("{service} stopped.", s))
    /\ units' = [units EXCEPT ![t][s] = "done"]
    /\ UNCHANGED << manager, buttons, pc, main_frame, background, registered >>

\* shutdown, lines 44 and 48: leave the with-block, then self.status = "stopped"
ShutdownJoin(t) ==
    /\ pc[t] = "shutdown_join"
    /\ pool_joined(units[t])
    /\ status' = "stopped"
    /\ units' = [units EXCEPT ![t] = after_join(units[t])]
    /\ pc' = [pc EXCEPT ![t] = "shutdown_complete"]
    /\ UNCHANGED << services, start_time, command_history, tasks, log, buttons,
                    main_frame, background, registered >>

\* shutdown, line 49: log_callback("OS Shutdown complete."), and shutdown returns:
\* to shutdown_process on a worker, to run_command (line 196: return "Goodbye!")
\* on the main thread.
ShutdownComplete(t) ==
    /\ pc[t] = "shutdown_complete"
    /\ log' = log_callback(t, log, Line("OS Shutdown complete.", ""))
    /\ IF t = Main
       THEN /\ pc' = [pc EXCEPT ![t] = "idle"]
            /\ result' = Goodbye
            /\ entry' = << >>
            /\ command' = << >>
       ELSE /\ pc' = [pc EXCEPT ![t] = "shutdown_returned"]
            /\ UNCHANGED << result, entry, command >>
    /\ UNCHANGED << manager, buttons, units, task_name, task_id, background, registered >>

\* shutdown_process, lines 331-332: enable the Boot button; update_service_status
\* only repaints the service labels.
ShutdownProcessEnd(t) ==
    /\ pc[t] = "shutdown_returned"
    /\ start_button' = "normal"
    /\ log' = log_closed(t, log)
    /\ pc' = [pc EXCEPT ![t] = "free"]
    /\ UNCHANGED << manager, shutdown_button, units, main_frame, background, registered >>

\* ---------------------------------------------------------------- dispatcher
\* Mutant of os_not_running: only an OS that never booted refuses commands.
os_not_running_idle_only(st) == st = "idle"

\* run_command, line 70: if self.status != "running"
os_not_running(st) == st # "running"

\* run_command, line 73: command = command.lower().strip()
normalize(raw) == strip(lower(raw))

\* Mutant of history_append: the command is not recorded.
history_append_skipped(h, c) == h

\* run_command, line 74: self.command_history.append(command)
history_append(h, c) == Append(h, c)

\* self.status.capitalize() in the reply of `status` (line 96).
status_text(st) ==
    CASE st = "idle"          -> "OS Status: Idle"
      [] st = "booting"       -> "OS Status: Booting"
      [] st = "running"       -> "OS Status: Running"
      [] st = "shutting down" -> "OS Status: Shutting down"
      [] st = "stopped"       -> "OS Status: Stopped"

\* The services whose state is "running", in configuration order (line 102).
RECURSIVE running_services(_, _)
running_services(svcs, i) ==
    IF i > NumServices THEN << >>
    ELSE (IF svcs[ServiceNames[i]] = "running" THEN << ServiceNames[i] >> ELSE << >>)
         \o running_services(svcs, i + 1)

\* command_history[-10:]
LogWindow == 10

\* Mutant of last_logs: the whole history is returned.
last_logs_unbounded(h) == h

last_logs(h) == SubSeq(h, IF Len(h) > LogWindow THEN Len(h) - LogWindow + 1 ELSE 1, Len(h))

\* run_command, lines 76-198: what the if/elif chain does with the normalized
\* command.  next = "return": the value ret is returned, the registry becoming
\* tasks; "add_task": add_task(task_name) is called; "shutdown": shutdown is called.
interpret(cmd, st, svcs, start, h, ts) ==
    LET return(r) == [next |-> "return", ret |-> r, tasks |-> ts, task_name |-> << >>]
        call(m)   == [next |-> "return", ret |-> m.ret, tasks |-> m.tasks, task_name |-> << >>]
    IN
    IF startswith(cmd, kw_add_task)
    THEN [next |-> "add_task", ret |-> NoResponse, tasks |-> ts,
          task_name |-> slice_from(cmd, 9)]
    ELSE IF startswith(cmd, kw_kill_task)
    THEN LET n == int(slice_from(cmd, 10)) IN
         IF n.ok THEN call(kill_task(ts, n.val)) ELSE return(InvalidTaskId)
    ELSE IF startswith(cmd, kw_prioritize_task)
    THEN LET parts == split(cmd) IN
         IF Len(parts) >= 3 /\ int(parts[2]).ok
         THEN call(prioritize_task(ts, int(parts[2]).val, parts[3]))
         ELSE return(PrioritizeUsage)
    ELSE IF cmd = kw_list_tasks THEN return(list_tasks(ts))
    ELSE IF cmd = kw_status THEN return(Response(status_text(st)))
    ELSE IF cmd = kw_uptime
    THEN return(IF start # "None" THEN Response("Uptime: {elapsed} seconds")
                ELSE Response("OS is not running."))
    ELSE IF cmd = kw_services
    THEN return([Response("Running Services: ") EXCEPT !.services = running_services(svcs, 1)])
    ELSE IF startswith(cmd, kw_echo)
    THEN return([Response("{echo}") EXCEPT !.name = slice_from(cmd, 5)])
    ELSE IF cmd = kw_date THEN return(Response("Current Date & Time: {now}"))
    ELSE IF cmd = kw_clear THEN return(Response("clear_log"))
    ELSE IF cmd = kw_help THEN return(Response("Available Commands:"))
    ELSE IF cmd = kw_memory THEN return(Response("Memory Usage:"))
    ELSE IF cmd = kw_cpu THEN return(Response("CPU Usage:"))
    ELSE IF cmd = kw_disk THEN return(Response("Disk Usage:"))
    ELSE IF cmd = kw_network THEN return(Response("Network Statistics:"))
    ELSE IF cmd = kw_log
    THEN return([Response("Last 10 Logs:") EXCEPT !.lines = last_logs(h)])
    ELSE IF cmd \in {kw_exit, kw_quit}
    THEN [next |-> "shutdown", ret |-> NoResponse, tasks |-> ts, task_name |-> << >>]
    ELSE return([Response("Unknown command: {command}") EXCEPT !.name = cmd])

\* Whether run_command(raw), once accepted, calls add_task.
creates_task(raw) == startswith(normalize(raw), kw_add_task)

\* The thread has been spawned for boot_process and boot() has not returned.
InBoot(t) == pc[t] \in {"boot", "boot_log", "boot_submit", "boot_join", "boot_complete"}

\* The thread is to run shutdown() and shutdown() has not returned.
InShutdown(t) ==
    pc[t] \in {"shutdown", "shutdown_log", "shutdown_submit", "shutdown_join",
               "shutdown_complete"}

\* A command typed now is refused for certain: the OS is not running and no boot is
\* under way that could make it run before line 70 is reached.
certainly_refused == os_not_running(status) /\ \A t \in Workers : ~InBoot(t)

\* Commands typed while the history is exercised: they change nothing but the history.
in_log == << "L","o","g"," " >>
in_date == << "D","A","T","E" >>
LogCommands == {in_log, in_date}

\* The length up to which the history is let grow by typing e.
HistoryRoom(e) == IF e \in LogCommands THEN MaxLogHistory ELSE MaxHistory

\* OS_GUI.execute_command, lines 336-340: a non-empty entry is passed to run_command.
\* Commands that can be accepted are typed while the history and the registry have
\* room within the bounds.
ExecuteCommand(e) ==
    /\ pc[Main] = "idle"
    /\ e # << >>
    /\ \/ certainly_refused
       \/ /\ Len(command_history) < HistoryRoom(e)
          /\ creates_task(e) => Len(tasks) < MaxTasks
    /\ entry' = e
    /\ pc' = [pc EXCEPT ![Main] = "run_command"]
    /\ UNCHANGED << manager, log, buttons, units, command, task_name, task_id, result,
                    background, registered >>

\* run_command, lines 70-71: a command is refused unless the OS is running.
RunCommandGuard ==
    /\ pc[Main] = "run_command"
    /\ IF os_not_running(status)
       THEN /\ result' = NotRunning
            /\ entry' = << >>
            /\ pc' = [pc EXCEPT ![Main] = "idle"]
       ELSE /\ pc' = [pc EXCEPT ![Main] = "run_command_append"]
            /\ UNCHANGED << result, entry >>
    /\ UNCHANGED << manager, log, buttons, units, command, task_name, task_id,
                    background, registered >>

\* run_command, lines 73-74: normalize the command and append it to the history.
RunCommandAppend ==
    /\ pc[Main] = "run_command_append"
    /\ command' = normalize(entry)
    /\ command_history' = history_append(command_history, normalize(entry))
    /\ pc' = [pc EXCEPT ![Main] = "run_command_interpret"]
    /\ UNCHANGED << status, services, start_time, tasks, log, buttons, units, entry,
                    task_name, task_id, result, background, registered >>

\* run_command, lines 76-198: the if/elif chain.
RunCommandInterpret ==
    /\ pc[Main] = "run_command_interpret"
    /\ LET i == interpret(command, status, services, start_time, command_history, tasks) IN
        /\ tasks' = i.tasks
        /\ task_name' = i.task_name
        /\ CASE i.next = "return" ->
                    /\ result' = i.ret
                    /\ entry' = << >>
                    /\ command' = << >>
                    /\ pc' = [pc EXCEPT ![Main] = "idle"]
             [] i.next = "add_task" ->
                    /\ pc' = [pc EXCEPT ![Main] = "add_task"]
                    /\ UNCHANGED << result, entry, command >>
             [] i.next = "shutdown" ->
                    /\ pc' = [pc EXCEPT ![Main] = "shutdown"]
                    /\ UNCHANGED << result, entry, command >>
    /\ UNCHANGED << status, services, start_time, command_history, log, buttons, units,
                    task_id, background, registered >>

\* ---------------------------------------------------------------- tasks on the main thread
\* add_task, line 202: task_id = len(self.tasks) + 1
AddTaskRead ==
    /\ pc[Main] = "add_task"
    /\ task_id' = next_task_id(tasks)
    /\ pc' = [pc EXCEPT ![Main] = "add_task_store"]
    /\ UNCHANGED << manager, log, buttons, units, entry, command, task_name, result,
                    background, registered >>

\* add_task, lines 203-204: store the record and return the confirmation.
AddTaskStore ==
    /\ pc[Main] = "add_task_store"
    /\ tasks' = store_task(tasks, task_id, task_name, prio_normal)
    /\ registered' = registered + 1
    /\ result' = add_task_return(task_name, task_id)
    /\ entry' = << >>
    /\ command' = << >>
    /\ task_name' = << >>
    /\ task_id' = 0
    /\ pc' = [pc EXCEPT ![Main] = "idle"]
    /\ UNCHANGED << status, services, start_time, command_history, log, buttons, units,
                    background >>

\* OS_GUI.add_task_gui, lines 364-366: a non-empty entry is the name passed to add_task.
AddTaskGui(e) ==
    /\ pc[Main] = "idle"
    /\ e # << >>
    /\ Len(tasks) < MaxTasks
    /\ task_name' = e
    /\ pc' = [pc EXCEPT ![Main] = "add_task"]
    /\ UNCHANGED << manager, log, buttons, units, entry, command, task_id, result,
                    background, registered >>

\* The Kill Task button is pressed with e in the entry.
KillTaskGuiClick(e) ==
    /\ pc[Main] = "idle"
    /\ entry' = e
    /\ pc' = [pc EXCEPT ![Main] = "kill_task_gui"]
    /\ UNCHANGED << manager, log, buttons, units, command, task_name, task_id, result,
                    background, registered >>

\* OS_GUI.kill_task_gui, lines 372-378.
KillTaskGui ==
    /\ pc[Main] = "kill_task_gui"
    /\ IF isdigit(entry)
       THEN LET k == kill_task(tasks, int(entry).val) IN
            /\ tasks' = k.tasks
            /\ result' = k.ret
       ELSE /\ result' = InvalidTaskId
            /\ UNCHANGED tasks
    /\ entry' = << >>
    /\ pc' = [pc EXCEPT ![Main] = "idle"]
    /\ UNCHANGED << status, services, start_time, command_history, log, buttons, units,
                    command, task_name, task_id, background, registered >>

\* The Prioritize Task button is pressed with e in the entry.
PrioritizeTaskGuiClick(e) ==
    /\ pc[Main] = "idle"
    /\ entry' = e
    /\ pc' = [pc EXCEPT ![Main] = "prioritize_task_gui"]
    /\ UNCHANGED << manager, log, buttons, units, command, task_name, task_id, result,
                    background, registered >>

\* OS_GUI.prioritize_task_gui, lines 382-390.
PrioritizeTaskGui ==
    /\ pc[Main] = "prioritize_task_gui"
    /\ LET parts == split(entry) IN
       IF Len(parts) = 2 /\ isdigit(parts[1])
       THEN LET p == prioritize_task(tasks, int(parts[1]).val, parts[2]) IN
            /\ tasks' = p.tasks
            /\ result' = p.ret
       ELSE /\ result' = GuiPrioritizeUsage
            /\ UNCHANGED tasks
    /\ entry' = << >>
    /\ pc' = [pc EXCEPT ![Main] = "idle"]
    /\ UNCHANGED << status, services, start_time, command_history, log, buttons, units,
                    command, task_name, task_id, background, registered >>

\* ---------------------------------------------------------------- background tasks
\* run_background_task, line 234, entered by caller b: task_id = len(self.tasks) + 1.
\* The frame of the caller's previous call is gone.
BackgroundRead(b, name) ==
    /\ bgpc[b] = "free"
    /\ Len(tasks) < MaxTasks
    /\ bg_frame' = [bg_frame EXCEPT ![b] = [task_name |-> name, task_id |-> next_task_id(tasks),
                                           lines |-> << >>]]
    /\ bgpc' = [bgpc EXCEPT ![b] = "bg_store"]
    /\ UNCHANGED << manager, log, buttons, pc, units, main_frame, registered >>

\* run_background_task, line 235: store the record with priority "background".
BackgroundStore(b) ==
    /\ bgpc[b] = "bg_store"
    /\ tasks' = store_task(tasks, bg_frame[b].task_id, bg_frame[b].task_name, prio_background)
    /\ registered' = registered + 1
    /\ bgpc' = [bgpc EXCEPT ![b] = "bg_log_start"]
    /\ UNCHANGED << status, services, start_time, command_history, log, buttons, pc, units,
                    main_frame, bg_frame >>

\* run_background_task, line 236: log_callback("Background task ... started with ID ...")
BackgroundLogStart(b) ==
    /\ bgpc[b] = "bg_log_start"
    /\ bg_frame' = [bg_frame EXCEPT ![b].lines = Append(@,
            TaskLine("Background task '{task_name}' started with ID {task_id}.",
                     bg_frame[b].task_name, bg_frame[b].task_id))]
    /\ bgpc' = [bgpc EXCEPT ![b] = "bg_sleep"]
    /\ UNCHANGED << manager, log, buttons, pc, units, main_frame, registered >>

\* run_background_task, lines 237-238: time.sleep(duration);
\* self.tasks[task_id]["status"] = "completed"
BackgroundFinish(b) ==
    /\ bgpc[b] = "bg_sleep"
    /\ tasks' = dict_set(tasks, bg_frame[b].task_id,
                         [task_at(tasks, bg_frame[b].task_id) EXCEPT !.status = "completed"])
    /\ bgpc' = [bgpc EXCEPT ![b] = "bg_log_done"]
    /\ UNCHANGED << status, services, start_time, command_history, log, buttons, pc, units,
                    main_frame, bg_frame, registered >>

\* run_background_task, line 239: log_callback("Background task ... completed."), return
BackgroundLogDone(b) ==
    /\ bgpc[b] = "bg_log_done"
    /\ bg_frame' = [bg_frame EXCEPT ![b].lines = Append(@,
            TaskLine("Background task '{task_name}' completed.", bg_frame[b].task_name, 0))]
    /\ bgpc' = [bgpc EXCEPT ![b] = "free"]
    /\ UNCHANGED << manager, log, buttons, pc, units, main_frame, registered >>

\* ---------------------------------------------------------------- inputs
in_status == << "S","t","a","t","u","s"," " >>
in_exit == << "e","x","i","t" >>
in_quit == << "Q","U","I","T" >>
in_add_B == << "A","d","d","_","T","a","s","k"," ","B" >>
in_kill_999 == << "k","i","l","l","_","t","a","s","k"," ","9","9","9" >>
in_prio_999 == << "p","r","i","o","r","i","t","i","z","e","_","t","a","s","k"," ","9","9","9"," ","h","i","g","h" >>
in_prio_1 == << "P","r","i","o","r","i","t","i","z","e","_","T","a","s","k"," ","1"," ","L","O","W"," ","n","o","w" >>
in_kill_abc == << "K","i","l","l","_","T","a","s","k"," ","a","b","c"," " >>
in_list == << "l","i","s","t","_","t","a","s","k","s" >>
in_unknown == << "u","n","k","n","o","w","n","_","c","m","d" >>
name_a == << "a" >>
name_b == << "b" >>
txt_1 == << "1" >>
txt_999 == << "9","9","9" >>
txt_abc == << "a","b","c" >>
txt_1_high == << "1"," ","h","i","g","h" >>
txt_999_high == << "9","9","9"," ","h","i","g","h" >>

\* Commands typed while the lifecycle is exercised.
LifecycleCommands == {in_exit, in_status, in_unknown}
\* Commands typed while the task registry is exercised.
TaskCommands == {in_add_B, in_kill_999, in_prio_999, in_list, in_quit}
\* Commands typed while existing tasks are edited.
EditCommands == {in_kill_abc, in_prio_1}
\* Entry texts for the task buttons.
TaskNames == {name_a}
KillEntries == {txt_1, txt_999, txt_abc}
PrioritizeEntries == {txt_1_high, txt_999_high, txt_1}
BackgroundNames == {name_b}

\* ---------------------------------------------------------------- specifications
\* The steps of the threads running boot() and shutdown() and of their pools.
LifecycleStep ==
    \/ StartOs
    \/ ShutdownOs
    \/ \E t \in Workers : BootEnter(t)
    \/ \E t \in Workers : BootLogStart(t)
    \/ \E t \in Workers : BootSubmit(t)
    \/ \E t \in Threads, s \in Services : StartServiceRun(t, s)
    \/ \E t \in Threads, s \in Services : StartServiceLog(t, s)
    \/ \E t \in Workers : BootJoin(t)
    \/ \E t \in Workers : BootComplete(t)
    \/ \E t \in Workers : BootProcessEnd(t)
    \/ \E t \in Threads : ShutdownEnter(t)
    \/ \E t \in Threads : ShutdownLogStart(t)
    \/ \E t \in Threads : ShutdownSubmit(t)
    \/ \E t \in Threads, s \in Services : StopServiceRun(t, s)
    \/ \E t \in Threads, s \in Services : StopServiceLog(t, s)
    \/ \E t \in Threads : ShutdownJoin(t)
    \/ \E t \in Threads : ShutdownComplete(t)
    \/ \E t \in Workers : ShutdownProcessEnd(t)

\* The steps of run_command on the main thread.
DispatchStep ==
    \/ RunCommandGuard
    \/ RunCommandAppend
    \/ RunCommandInterpret

\* The shell with its Boot and Shutdown buttons and its command entry.
Next ==
    \/ LifecycleStep
    \/ \E e \in LifecycleCommands : ExecuteCommand(e)
    \/ DispatchStep

Spec == Init /\ [][Next]_vars

\* A step of thread t once it has been started or its handler has been entered: the
\* interpreter schedules every thread that can run.
ThreadStep(t) ==
    \/ t \in Workers /\ BootEnter(t)
    \/ t \in Workers /\ BootLogStart(t)
    \/ t \in Workers /\ BootSubmit(t)
    \/ t \in Workers /\ BootJoin(t)
    \/ t \in Workers /\ BootComplete(t)
    \/ t \in Workers /\ BootProcessEnd(t)
    \/ ShutdownEnter(t)
    \/ ShutdownLogStart(t)
    \/ ShutdownSubmit(t)
    \/ ShutdownJoin(t)
    \/ ShutdownComplete(t)
    \/ t \in Workers /\ ShutdownProcessEnd(t)
    \/ t = Main /\ DispatchStep

\* A step of the pool thread that runs the unit of service s submitted by thread t.
UnitStep(t, s) ==
    \/ StartServiceRun(t, s)
    \/ StartServiceLog(t, s)
    \/ StopServiceRun(t, s)
    \/ StopServiceLog(t, s)

\* The shell with its Boot and Shutdown buttons, the command typed being exit.
NextLive ==
    \/ LifecycleStep
    \/ ExecuteCommand(in_exit)
    \/ DispatchStep

\* The shell under a fair scheduler: a thread or a pool unit that can take a step
\* eventually takes it.  What the user does (the buttons, the commands) is not forced.
SpecLive ==
    /\ Init /\ [][NextLive]_vars
    /\ \A t \in Threads : WF_vars(ThreadStep(t))
    /\ \A t \in Threads : \A s \in Services : WF_vars(UnitStep(t, s))

\* The steps of the task handlers on the main thread.
TaskStep ==
    \/ \E e \in TaskNames : AddTaskGui(e)
    \/ AddTaskRead
    \/ AddTaskStore
    \/ \E e \in KillEntries : KillTaskGuiClick(e)
    \/ KillTaskGui
    \/ \E e \in PrioritizeEntries : PrioritizeTaskGuiClick(e)
    \/ PrioritizeTaskGui

\* Booting, as far as the task handlers need it: the Boot button and boot().
BootStep ==
    \/ StartOs
    \/ \E t \in Workers : BootEnter(t)
    \/ \E t \in Workers : BootLogStart(t)
    \/ \E t \in Workers : BootSubmit(t)
    \/ \E t \in Workers, s \in Services : StartServiceRun(t, s)
    \/ \E t \in Workers, s \in Services : StartServiceLog(t, s)
    \/ \E t \in Workers : BootJoin(t)
    \/ \E t \in Workers : BootComplete(t)
    \/ \E t \in Workers : BootProcessEnd(t)

\* shutdown() as run_command runs it for exit and quit, on the main thread.
ExitStep ==
    \/ ShutdownEnter(Main)
    \/ ShutdownLogStart(Main)
    \/ ShutdownSubmit(Main)
    \/ \E s \in Services : StopServiceRun(Main, s)
    \/ \E s \in Services : StopServiceLog(Main, s)
    \/ ShutdownJoin(Main)
    \/ ShutdownComplete(Main)

\* The shell with its Boot button, its command entry and its task buttons; the
\* Shutdown button is not pressed.
NextTasks ==
    \/ BootStep
    \/ ExitStep
    \/ \E e \in TaskCommands : ExecuteCommand(e)
    \/ DispatchStep
    \/ TaskStep

SpecTasks == Init /\ [][NextTasks]_vars

\* The shell with its Boot button and its task buttons, the commands typed being
\* those that edit a task of the registry.
NextTaskEdit ==
    \/ BootStep
    \/ \E e \in EditCommands : ExecuteCommand(e)
    \/ DispatchStep
    \/ TaskStep

SpecTaskEdit == Init /\ [][NextTaskEdit]_vars

\* The steps of a caller of run_background_task.
BackgroundStep ==
    \/ \E b \in BgThreads, n \in BackgroundNames : BackgroundRead(b, n)
    \/ \E b \in BgThreads : BackgroundStore(b)
    \/ \E b \in BgThreads : BackgroundLogStart(b)
    \/ \E b \in BgThreads : BackgroundFinish(b)
    \/ \E b \in BgThreads : BackgroundLogDone(b)

\* The task buttons of the shell, with run_background_task running on threads of
\* its own beside the main thread.
NextBg ==
    \/ \E e \in TaskNames : AddTaskGui(e)
    \/ AddTaskRead
    \/ AddTaskStore
    \/ \E e \in KillEntries : KillTaskGuiClick(e)
    \/ KillTaskGui
    \/ BackgroundStep

SpecBg == Init /\ [][NextBg]_vars

\* The shell with its Boot button and its command entry, the commands typed being
\* those that only read the manager.
NextLog ==
    \/ BootStep
    \/ \E e \in LogCommands : ExecuteCommand(e)
    \/ DispatchStep

SpecLog == Init /\ [][NextLog]_vars

\* ================================================================ claims
\* A unit of a pool that has been submitted and has not finished.
InFlight == {"start_sleep", "start_log", "stop_sleep", "stop_log"}
AllRunning(svcs) == \A s \in Services : svcs[s] = "running"
AllStopped(svcs) == \A s \in Services : svcs[s] = "stopped"

\* C1: boot barrier.  boot() sets the status to Running (line 36) and returns (line 37)
\* only when none of the start units it launched is still in flight, and at the
\* moment boot() returns every configured service is Running.
C1_BootBarrier ==
    [][\A t \in Workers :
        /\ (pc[t] = "boot_join" /\ pc'[t] = "boot_complete")
            => \A s \in Services : units[t][s] \notin InFlight
        /\ (pc[t] = "boot_complete" /\ pc'[t] = "boot_returned")
            => /\ \A s \in Services : units'[t][s] \notin InFlight
               /\ AllRunning(services')]_vars

\* C2: the status changes only along Idle/Stopped -> Booting -> Running ->
\* ShuttingDown -> Stopped.
StatusCycle ==
    { << "idle", "booting" >>, << "stopped", "booting" >>, << "booting", "running" >>,
      << "running", "shutting down" >>, << "shutting down", "stopped" >> }
C2_StatusCycle == [][status' # status => << status, status' >> \in StatusCycle]_vars

\* C3: no service is the target of two in-flight start or stop units at once.
C3_OneUnitPerService ==
    \A s \in Services : Cardinality({t \in Threads : units[t][s] \in InFlight}) <= 1

\* C4: at most one boot() is in flight, and a boot the shell has triggered after the
\* first one starts only when a shutdown has completed: the status is Stopped and no
\* boot() or shutdown() is in flight on any other thread.
C4_NoConcurrentBoot ==
    /\ Cardinality({t \in Workers : InBoot(t)}) <= 1
    /\ \A t \in Workers :
        pc[t] = "boot" =>
            /\ \A o \in Threads \ {t} : ~InBoot(o) /\ ~InShutdown(o)
            /\ status = (IF start_time = "None" THEN "idle" ELSE "stopped")
            /\ AllStopped(services)

\* C4 witness: a second boot has been triggered, after a boot and a shutdown.
C4_Witness == \E t \in Workers : pc[t] = "boot" /\ status = "stopped"

\* C5: task ids are handed out under mutual exclusion: every registration that has
\* been carried out is a stored task of its own, none overwrote another.
C5_DistinctTaskIds == Len(tasks) = registered

\* The main thread takes the step of run_command that starts at position p.
MainLeaves(p) == pc[Main] = p /\ pc'[Main] # p

\* C6 as stated: every command passed to the dispatcher is appended to the history
\* exactly once before it is interpreted, in every status: a call that returns from
\* the guard (line 71) has appended it too.
C6_AppendedInEveryStatus ==
    [][/\ MainLeaves("run_command") /\ pc'[Main] = "idle"
            => command_history' = Append(command_history, entry)
       /\ MainLeaves("run_command_append")
            => command_history' = Append(command_history, entry)
       /\ MainLeaves("run_command_interpret") => command_history' = command_history]_vars

\* C6 amended: a command passed while the status is Running is appended exactly once,
\* lowercased and stripped, before it is interpreted, recognized or not; a command
\* passed in any other status is refused without being appended.  The history
\* changes in no other step.
C6_AppendedWhenRunning ==
    [][/\ MainLeaves("run_command")
            => /\ command_history' = command_history
               /\ pc'[Main] = (IF status = "running" THEN "run_command_append" ELSE "idle")
       /\ MainLeaves("run_command_append")
            => /\ command_history' = Append(command_history, strip(lower(entry)))
               /\ pc'[Main] = "run_command_interpret"
       /\ MainLeaves("run_command_interpret")
            => /\ command_history' = command_history
               /\ command_history # << >>
               /\ command_history[Len(command_history)] = strip(lower(entry))
       /\ command_history' # command_history => MainLeaves("run_command_append")]_vars

\* C6 witness: an unrecognized command, typed with the OS running, is in the history
\* and about to be interpreted.
C6_Witness ==
    /\ pc[Main] = "run_command_interpret"
    /\ status = "running"
    /\ entry = in_unknown
    /\ command_history = << in_unknown >>

\* C7: a command that reaches the guard while the status is not Running returns the
\* 'not running' response and changes neither the status, nor a service, nor a task,
\* and starts no shutdown.
C7_RefusedWhenNotRunning ==
    [][MainLeaves("run_command") /\ status # "running"
        => /\ result' = NotRunning
           /\ pc'[Main] = "idle"
           /\ status' = status
           /\ services' = services
           /\ tasks' = tasks
           /\ units' = units]_vars

\* C7 witness: quit has been refused after the OS stopped, with a task in the registry.
C7_Witness ==
    /\ status = "stopped"
    /\ result = NotRunning
    /\ tasks # << >>
    /\ pc[Main] = "idle"

\* C8: when a shutdown() that followed a completed boot has run to completion every
\* service is Stopped and the status is Stopped, and shutdown() sets the status to
\* Stopped (line 48) only when none of its stop units is still in flight.
C8_ShutdownLeavesStopped ==
    [][\A t \in Threads :
        /\ (pc[t] = "shutdown_join" /\ pc'[t] = "shutdown_complete")
            => \A s \in Services : units[t][s] \notin InFlight
        /\ (pc[t] = "shutdown_complete" /\ pc'[t] # "shutdown_complete")
            => /\ status' = "stopped"
               /\ AllStopped(services')]_vars

\* The record add_task stores for the k-th task.
NewTask(k, name) == [key |-> k, name |-> name, status |-> "running", priority |-> prio_normal]

\* What list_tasks reports for a registry: every task, in creation order.
Listing(ts) ==
    IF ts = << >> THEN NoActiveTasks
    ELSE [Response("Active Tasks:") EXCEPT !.tasks =
            [k \in 1..Len(ts) |-> [id |-> k, name |-> ts[k].name,
                                   status |-> ts[k].status, priority |-> ts[k].priority]]]

\* C9: the k-th task created gets id k, status Running and priority normal; ids are
\* never reused and no task is removed; list_tasks reports every task in creation
\* order, or 'No active tasks.' when there is none.
C9_SequentialIds ==
    [][/\ \A k \in 1..Len(tasks') : tasks'[k].key = k
       /\ Len(tasks') >= Len(tasks)
       /\ \A k \in 1..Len(tasks) : tasks'[k].key = tasks[k].key /\ tasks'[k].name = tasks[k].name
       /\ MainLeaves("add_task_store")
            => /\ tasks' = Append(tasks, NewTask(Len(tasks) + 1, task_name))
               /\ result'.id = Len(tasks) + 1
               /\ result'.name = task_name
       /\ MainLeaves("run_command_interpret") /\ command = kw_list_tasks
            => result' = Listing(tasks) /\ tasks' = tasks]_vars

\* C9 witness: two tasks have been added and list_tasks has reported them as 1 and 2.
C9_Witness ==
    /\ Len(tasks) = 2
    /\ result.text = "Active Tasks:"
    /\ Len(result.tasks) = 2
    /\ result.tasks[1].id = 1
    /\ result.tasks[2].id = 2

\* The id a kill_task or prioritize_task call in progress on the main thread names,
\* with ok = FALSE when no such call is in progress or its argument is refused.
TargetId ==
    CASE pc[Main] = "kill_task_gui" /\ isdigit(entry) -> int(entry)
      [] pc[Main] = "prioritize_task_gui" /\ Len(split(entry)) = 2 /\ isdigit(split(entry)[1])
            -> int(split(entry)[1])
      [] pc[Main] = "run_command_interpret" /\ startswith(command, kw_kill_task)
            -> int(slice_from(command, 10))
      [] pc[Main] = "run_command_interpret" /\ startswith(command, kw_prioritize_task)
            /\ Len(split(command)) >= 3
            -> int(split(command)[2])
      [] OTHER -> [ok |-> FALSE, val |-> 0]

\* C10: kill_task and prioritize_task with an id that is not in the registry return
\* the not-found response and change nothing: the status, the services and the tasks
\* are as before.
C10_UnknownIdChangesNothing ==
    [][pc'[Main] # pc[Main] /\ TargetId.ok /\ TargetId.val \notin {tasks[k].key : k \in 1..Len(tasks)}
        => /\ result' = [Response("Task ID {task_id} not found.") EXCEPT !.id = TargetId.val]
           /\ pc'[Main] = "idle"
           /\ tasks' = tasks
           /\ status' = status
           /\ services' = services]_vars

\* C10 witness: id 999 has been looked up in a registry that holds a task, and was
\* not found.
C10_Witness ==
    /\ result.text = "Task ID {task_id} not found."
    /\ result.id = 999
    /\ tasks # << >>

\* The task id and the priority a prioritize_task call in progress on the main thread
\* passes, with ok = FALSE when no such call is in progress or its arguments are
\* refused.
PrioritizeCall ==
    CASE pc[Main] = "prioritize_task_gui" /\ Len(split(entry)) = 2 /\ isdigit(split(entry)[1])
            -> [ok |-> TRUE, id |-> int(split(entry)[1]).val, priority |-> split(entry)[2]]
      [] pc[Main] = "run_command_interpret" /\ startswith(command, kw_prioritize_task)
            /\ Len(split(command)) >= 3 /\ int(split(command)[2]).ok
            -> [ok |-> TRUE, id |-> int(split(command)[2]).val, priority |-> split(command)[3]]
      [] OTHER -> [ok |-> FALSE, id |-> 0, priority |-> << >>]

\* C11: prioritize_task(id, p) on a task of the registry sets that task's priority to
\* p and nothing else: its name and status, every other task's record, the ids and
\* their order, the status of the manager and every service are as before.
C11_PrioritizeChangesPriorityOnly ==
    [][pc'[Main] # pc[Main] /\ PrioritizeCall.ok
            /\ PrioritizeCall.id \in {tasks[k].key : k \in 1..Len(tasks)}
        => /\ Len(tasks') = Len(tasks)
           /\ \A k \in 1..Len(tasks) :
                /\ tasks'[k].key = tasks[k].key
                /\ tasks'[k].name = tasks[k].name
                /\ tasks'[k].status = tasks[k].status
                /\ tasks'[k].priority = (IF tasks[k].key = PrioritizeCall.id
                                         THEN PrioritizeCall.priority
                                         ELSE tasks[k].priority)
           /\ status' = status
           /\ services' = services]_vars

\* C11 witness: with two tasks in the registry, task 1, which had been killed, has
\* been given the priority "low" by a command; task 2 keeps the priority "normal".
C11_Witness ==
    /\ Len(tasks) = 2
    /\ tasks[1].priority = << "l","o","w" >>
    /\ tasks[1].status = "terminated"
    /\ tasks[2].priority = prio_normal
    /\ result.text = "Task ID {task_id} ('{name}') priority set to {priority}."

\* The commands accepted before the one run_command is interpreting.
PriorCommands == SubSeq(command_history, 1, Len(command_history) - 1)

\* C12 as stated: `log` after n prior commands returns the last min(n, 10) of those
\* prior commands, in submission order.
C12_LastTenPrior ==
    [][MainLeaves("run_command_interpret") /\ command = kw_log
        => LET n == Len(PriorCommands)
               k == IF n < 10 THEN n ELSE 10
           IN  result'.lines = [i \in 1..k |-> PriorCommands[n - k + i]]]_vars

\* C12 amended: `log` after n prior accepted commands returns the last min(n + 1, 10)
\* entries of the history in submission order: the last min(n, 9) prior commands,
\* lowercased and stripped, followed by "log" itself.
C12_LastTenEntries ==
    [][MainLeaves("run_command_interpret") /\ command = kw_log
        => LET n == Len(PriorCommands)
               k == IF n < 9 THEN n ELSE 9
           IN  /\ result'.text = "Last 10 Logs:"
               /\ result'.lines = [i \in 1..k |-> PriorCommands[n - k + i]] \o << kw_log >>
               /\ \A i \in 1..n : PriorCommands[i] \in {kw_log, kw_date}]_vars

\* C12 witness: `log` has been answered after 12 prior commands, of which the third
\* was `log` and the fourth `date`: the answer starts at the fourth.
C12_Witness ==
    /\ pc[Main] = "idle"
    /\ Len(command_history) = 13
    /\ command_history[3] = kw_log
    /\ command_history[4] = kw_date
    /\ result.text = "Last 10 Logs:"
    /\ Len(result.lines) = 10
    /\ result.lines[1] = kw_date
    /\ result.lines[10] = kw_log

\* The text has a letter in it, so it is not the decimal notation of an integer.
HasLetter(s) == \E i \in 1..Len(s), j \in 1..Len(Lower) : s[i] = Lower[j]

\* The argument of the kill_task command that run_command is working on.
KillArgument(cmd) == slice_from(cmd, 10)

C14_ReturnsWhileRunning ==
    [][\A b \in BgThreads :
        (bgpc[b] = "bg_log_done" /\ bgpc'[b] = "free")
            => task_at(tasks', bg_frame[b].task_id).status = "running"]_vars

\* C15: exit and quit run a complete shutdown before they answer: when "Goodbye!" is
\* returned the status is Stopped and every service is Stopped, and no line of that
\* shutdown has reached the log sink.
C15_GoodbyeAfterShutdown ==
    [][/\ (pc[Main] = "shutdown_complete" /\ pc'[Main] = "idle")
            => /\ result' = Goodbye
               /\ status' = "stopped"
               /\ AllStopped(services')
       /\ (InShutdown(Main) /\ pc'[Main] # pc[Main]) => log' = log
       /\ (\E s \in Services : units'[Main][s] # units[Main][s]) => log' = log]_vars

\* C16: under fair scheduling every started boot and shutdown runs to completion: a
\* boot() that has set the status Booting (line 28) goes on to set it Running (line
\* 36), a shutdown() that has set the status ShuttingDown (line 41) goes on to set it
\* Stopped (line 48); no controller waits at its barrier for ever.
C16_RunsToCompletion ==
    /\ \A t \in Workers : (pc[t] = "boot_log") ~> (pc[t] = "boot_complete")
    /\ \A t \in Threads : (pc[t] = "shutdown_log") ~> (pc[t] = "shutdown_complete")

\* C16 witness: a shutdown that followed a boot has passed its barrier and returned.
C16_Witness ==
    \E t \in Workers :
        /\ pc[t] = "shutdown_returned"
        /\ start_time = "set"
        /\ Len(log[t]) = NumServices + 2

\* The lines thread t's boot() has handed to the sink are a prefix-wise well-ordered
\* boot log: the "Booting" line first, then "<service> started." lines, no service
\* twice, and the "OS Boot Complete." line only as the last one, after a line of
\* every service.
BootLogOrdered(t) ==
    LET lg == log[t]
        started(i) == lg[i].text = "{service} started." /\ lg[i].service \in Services
    IN  /\ lg # << >> => lg[1] = Line("Booting PyFastOS...", "")
        /\ \A i \in 2..Len(lg) :
              \/ started(i) /\ \A j \in 2..Len(lg) : (j # i => lg[j] # lg[i])
              \/ /\ i = Len(lg)
                 /\ i = NumServices + 2
                 /\ lg[i] = Line("OS Boot Complete.", "")
        /\ pc[t] = "boot_returned" =>
              /\ Len(lg) = NumServices + 2
              /\ lg[Len(lg)] = Line("OS Boot Complete.", "")
              /\ \A s \in Services : \E i \in 2..(NumServices + 1) : lg[i].service = s

\* C17: the sink receives from a boot the "Booting" line first, then exactly one
\* "<service> started." line per service, then the boot-complete line last; and a
\* "<service> started." line is emitted only when that service is already Running.
C17_BootLogOrder ==
    /\ [](\A t \in Workers : (InBoot(t) \/ pc[t] = "boot_returned") => BootLogOrdered(t))
    /\ [][\A t \in Workers, s \in Services :
            (units[t][s] = "start_log" /\ units'[t][s] = "done")
                => /\ services[s] = "running"
                   /\ log'[t] = Append(log[t], Line("{service} started.", s))]_vars

\* C17 witness: a boot has returned having logged the start of the second service
\* before that of the first.
C17_Witness ==
    \E t \in Workers :
        /\ pc[t] = "boot_returned"
        /\ Len(log[t]) = NumServices + 2
        /\ log[t][2].service = ServiceNames[2]
        /\ log[t][3].service = ServiceNames[1]

\* C18: whenever the status is Running every service is Running, and whenever the
\* status is Idle or Stopped every service is Stopped; a service disagrees with the
\* status only while the status is Booting or ShuttingDown.
C18_StatusMatchesServices ==
    /\ status = "running" => AllRunning(services)
    /\ status \in {"idle", "stopped"} => AllStopped(services)
    /\ (\E s, r \in Services : services[s] # services[r])
            => status \in {"booting", "shutting down"}

\* C18 witness: the status is Stopped with every service stopped while a shutdown()
\* is still under way on another thread.
C18_Witness ==
    /\ status = "stopped"
    /\ AllStopped(services)
    /\ start_time = "set"
    /\ \E t \in Threads : pc[t] \in {"shutdown_submit", "shutdown_join"}

\* C19: a task's status moves at most once, from Running to Terminated or to
\* Completed: a task that is Terminated or Completed keeps its status in every step.
C19_StatusMonotone ==
    [][\A k \in 1..Len(tasks) :
        tasks[k].status \in {"terminated", "completed"}
            => tasks'[k].status = tasks[k].status]_vars

====
